---- MODULE Spec2Model ----
(***************************************************************************)
(* Model of src/main.py: the Game_Ops bitboard state and the turn loop of  *)
(* main() with frontend_ask_input().  Strings are sequences of one-        *)
(* character strings, so that formatting (f'{i}') and parsing (int()) are  *)
(* computed rather than assumed.                                           *)
(***************************************************************************)
EXTENDS Integers, Sequences, FiniteSets, TLC

VARIABLES
    boardStates,   \* Game_Ops.boardStates: [0..1 -> Nat], one mask per player
    playerCount,   \* Game_Ops.playerCount
    turnCount,     \* Game_Ops.turnCount
    pc,            \* position of the program
    inputIndex,    \* frontend_ask_input: the raw string last read
    insertIndex,   \* main: the index returned by frontend_ask_input (-1: not yet)
    winResult,     \* the value last returned by is_win() (or by a query on the class)
    announced,     \* the outcome messages printed so far
    placedCount,   \* history: number of insert_index calls made so far
    symbols,       \* the two player symbols read by frontend_pre_game
    boardData      \* frontend_draw_board: the list handed to the template

vars == <<boardStates, playerCount, turnCount, pc, inputIndex, insertIndex,
          winResult, announced, placedCount, symbols, boardData>>

\* what only frontend_pre_game and frontend_draw_board write
screen == <<symbols, boardData>>

----------------------------------------------------------------------------
(* Python's integer operators, on non-negative unbounded integers.         *)

RECURSIVE BitAnd(_, _)
BitAnd(a, b) ==
    IF a = 0 \/ b = 0 THEN 0
    ELSE (a % 2) * (b % 2) + 2 * BitAnd(a \div 2, b \div 2)

RECURSIVE BitOr(_, _)
BitOr(a, b) ==
    IF a = 0 THEN b
    ELSE IF b = 0 THEN a
    ELSE (IF a % 2 = 1 \/ b % 2 = 1 THEN 1 ELSE 0) + 2 * BitOr(a \div 2, b \div 2)

Shl(a, n) == a * (2 ^ n)

----------------------------------------------------------------------------
(* Strings: f'{i}' and int().                                              *)

DigitChars == <<"0", "1", "2", "3", "4", "5", "6", "7", "8", "9">>

RECURSIVE Format(_)
Format(i) ==
    IF i < 10 THEN <<DigitChars[i + 1]>>
    ELSE Format(i \div 10) \o <<DigitChars[(i % 10) + 1]>>

DigitVal(c) == CHOOSE d \in 0..9 : DigitChars[d + 1] = c

IsDigit(c) == \E d \in 0..9 : DigitChars[d + 1] = c

IsSpace(c) == c \in {" ", "\t"}

RECURSIVE LStrip(_)
LStrip(s) ==
    IF s # <<>> /\ IsSpace(Head(s)) THEN LStrip(Tail(s)) ELSE s

RECURSIVE RStrip(_)
RStrip(s) ==
    IF s # <<>> /\ IsSpace(s[Len(s)]) THEN RStrip(SubSeq(s, 1, Len(s) - 1)) ELSE s

Strip(s) == RStrip(LStrip(s))

Unsigned(s) == IF s # <<>> /\ Head(s) \in {"+", "-"} THEN Tail(s) ELSE s

RECURSIVE DigitsValue(_)
DigitsValue(ds) ==
    IF ds = <<>> THEN 0
    ELSE 10 * DigitsValue(SubSeq(ds, 1, Len(ds) - 1)) + DigitVal(ds[Len(ds)])

\* int(s) succeeds: optional blanks, optional sign, one or more digits.
PyIntOk(s) ==
    LET ds == Unsigned(Strip(s))
    IN  ds # <<>> /\ \A k \in 1..Len(ds) : IsDigit(ds[k])

PyInt(s) ==
    LET t == Strip(s)
        v == DigitsValue(Unsigned(t))
    IN  IF Head(t) = "-" THEN 0 - v ELSE v

----------------------------------------------------------------------------
(* Game_Ops                                                                *)

NumCells == 9

Players == {0, 1}

\* a mistyped diagonal: 272 for 273
winNums_typo == <<7, 56, 448, 73, 146, 292, 272, 84>>

winNums == <<7, 56, 448, 73, 146, 292, 273, 84>>

\* the shift left out: OR with the index itself
insert_index_noshift(bs, p, i) == [bs EXCEPT ![p] = BitOr(bs[p], i)]

\* = written for |=: the mask is overwritten
insert_index_assign(bs, p, i) == [bs EXCEPT ![p] = Shl(1, i)]

insert_index(bs, p, i) == [bs EXCEPT ![p] = BitOr(bs[p], Shl(1, i))]

\* all() written for any()
is_in_board_state_all(bs, i) == \A q \in DOMAIN bs : BitAnd(bs[q], Shl(1, i)) # 0

is_in_board_state(bs, i) == \E q \in DOMAIN bs : BitAnd(bs[q], Shl(1, i)) # 0

\* the check made on the other player's mask, as after the toggle
is_win_other(bs, p) ==
    \E k \in 1..Len(winNums) : BitAnd(bs[1 - p], winNums[k]) = winNums[k]

\* != 0 written for == winNum
is_win_any(bs, p) ==
    \E k \in 1..Len(winNums) : BitAnd(bs[p], winNums[k]) # 0

is_win(bs, p) ==
    \E k \in 1..Len(winNums) : BitAnd(bs[p], winNums[k]) = winNums[k]

\* the increment cancels under the modulus
update_player_count_stuck(p) == (p + 2) % 2

\* the modulus left out
update_player_count_nomod(p) == p + 1

update_player_count(p) == (p + 1) % 2

\* the argument counted twice
update_turn_twice(t, num) == t + num + num

update_turn(t, num) == t + num

----------------------------------------------------------------------------
(* frontend_ask_input and main                                             *)

\* range(0, 10) written for range(0, 9)
ValidInputs_ten == {Format(i) : i \in 0..NumCells}

ValidInputs == {Format(i) : i \in 0..(NumCells - 1)}

\* the local inputIndex of a frontend_ask_input call that has not read yet
Unbound == <<"unbound">>

MaxTurns == 9

\* the loop stops one turn early
LoopCond_early(t) == t < MaxTurns - 1

\* <= written for <
LoopCond_late(t) == t <= MaxTurns

LoopCond(t) == t < MaxTurns

RawInputs ==
    ValidInputs \cup
    { <<"9">>, <<"1", "0">>, <<"-", "1">>, <<"a">>, <<>>, <<"0", "3">>, <<"3", " ">> }

Init ==
    /\ boardStates = [q \in Players |-> 0]
    /\ playerCount = 0
    /\ turnCount = 0
    /\ pc = "while"
    /\ inputIndex = Unbound
    /\ insertIndex = -1
    /\ winResult = FALSE
    /\ announced = <<>>
    /\ placedCount = 0
    /\ symbols = <<"X", "O">>
    /\ boardData = [k \in 1..NumCells |-> " "]

\* while Game_Ops.turnCount < 9: the loop is entered and frontend_ask_input called
LoopEnter ==
    /\ pc = "while"
    /\ LoopCond(turnCount)
    /\ inputIndex' = Unbound
    /\ pc' = "ask"
    /\ UNCHANGED <<boardStates, playerCount, turnCount, insertIndex,
                   winResult, announced, placedCount,
                   screen>>

\* the loop condition fails: It's a draw!
DrawAnnounce ==
    /\ pc = "while"
    /\ ~LoopCond(turnCount)
    /\ announced' = Append(announced, [kind |-> "draw", player |-> -1])
    /\ pc' = "draw"
    /\ UNCHANGED <<boardStates, playerCount, turnCount, inputIndex, insertIndex,
                   winResult, placedCount,
                   screen>>

\* one iteration of frontend_ask_input: the input is not one of '0'..'8'
AskRejectRange ==
    /\ pc = "ask"
    /\ \E s \in RawInputs :
        /\ inputIndex' = s
        /\ s \notin ValidInputs
    /\ UNCHANGED <<boardStates, playerCount, turnCount, pc, insertIndex,
                   winResult, announced, placedCount,
                   screen>>

\* one iteration of frontend_ask_input: the cell is taken
AskRejectOccupied ==
    /\ pc = "ask"
    /\ \E s \in RawInputs :
        /\ inputIndex' = s
        /\ s \in ValidInputs
        /\ is_in_board_state(boardStates, PyInt(s))
    /\ UNCHANGED <<boardStates, playerCount, turnCount, pc, insertIndex,
                   winResult, announced, placedCount,
                   screen>>

\* one iteration of frontend_ask_input: the index is returned to main
AskAccept ==
    /\ pc = "ask"
    /\ \E s \in RawInputs :
        /\ inputIndex' = s
        /\ s \in ValidInputs
        /\ ~is_in_board_state(boardStates, PyInt(s))
        /\ insertIndex' = PyInt(s)
    /\ pc' = "insert"
    /\ UNCHANGED <<boardStates, playerCount, turnCount, winResult, announced,
                   placedCount,
                   screen>>

\* Game_Ops.insert_index(insertIndex)
Insert ==
    /\ pc = "insert"
    /\ boardStates' = insert_index(boardStates, playerCount, insertIndex)
    /\ placedCount' = placedCount + 1
    /\ pc' = "check"
    /\ UNCHANGED <<playerCount, turnCount, inputIndex, insertIndex, winResult,
                   announced,
                   screen>>

\* the exit() left out: the loop goes on after the announcement
WinAnnounce_noexit ==
    /\ pc = "check"
    /\ is_win(boardStates, playerCount)
    /\ winResult' = TRUE
    /\ announced' = Append(announced, [kind |-> "won", player |-> playerCount])
    /\ pc' = "toggle"
    /\ UNCHANGED <<boardStates, playerCount, turnCount, inputIndex, insertIndex,
                   placedCount,
                   screen>>

\* if Game_Ops.is_win(): announce the winner and exit()
WinAnnounce ==
    /\ pc = "check"
    /\ is_win(boardStates, playerCount)
    /\ winResult' = TRUE
    /\ announced' = Append(announced, [kind |-> "won", player |-> playerCount])
    /\ pc' = "won"
    /\ UNCHANGED <<boardStates, playerCount, turnCount, inputIndex, insertIndex,
                   placedCount,
                   screen>>

\* if Game_Ops.is_win(): false, the turn goes on
NoWin ==
    /\ pc = "check"
    /\ ~is_win(boardStates, playerCount)
    /\ winResult' = FALSE
    /\ pc' = "toggle"
    /\ UNCHANGED <<boardStates, playerCount, turnCount, inputIndex, insertIndex,
                   announced, placedCount,
                   screen>>

\* Game_Ops.update_player_count()
TogglePlayer ==
    /\ pc = "toggle"
    /\ playerCount' = update_player_count(playerCount)
    /\ pc' = "turn"
    /\ UNCHANGED <<boardStates, turnCount, inputIndex, insertIndex, winResult,
                   announced, placedCount,
                   screen>>

\* the turn counter never advanced
AdvanceTurn_skip ==
    /\ pc = "turn"
    /\ pc' = "while"
    /\ UNCHANGED <<boardStates, playerCount, turnCount, inputIndex, insertIndex,
                   winResult, announced, placedCount,
                   screen>>

\* Game_Ops.update_turn(1)
AdvanceTurn ==
    /\ pc = "turn"
    /\ turnCount' = update_turn(turnCount, 1)
    /\ pc' = "while"
    /\ UNCHANGED <<boardStates, playerCount, inputIndex, insertIndex, winResult,
                   announced, placedCount,
                   screen>>

Next ==
    \/ LoopEnter
    \/ DrawAnnounce
    \/ AskRejectRange
    \/ AskRejectOccupied
    \/ AskAccept
    \/ Insert
    \/ WinAnnounce
    \/ NoWin
    \/ TogglePlayer
    \/ AdvanceTurn

Spec == Init /\ [][Next]_vars

\* The prompt is answered with the index of a free cell and the index goes
\* back to main: the accepting iteration of frontend_ask_input, told by the
\* cells of the board.
AcceptableAnswer ==
    /\ pc = "ask"
    /\ pc' = "insert"
    /\ \E i \in 0..(NumCells - 1) :
        /\ \A q \in Players : (boardStates[q] \div (2 ^ i)) % 2 = 0
        /\ insertIndex' = i
        /\ inputIndex' = <<DigitChars[i + 1]>>
    /\ UNCHANGED <<boardStates, playerCount, turnCount, winResult, announced,
                   placedCount,
                   screen>>

\* AcceptableAnswer is the accepting iteration and nothing else.
AcceptableAnswerIsAskAccept == [][AcceptableAnswer <=> AskAccept]_vars

\* the steps main takes by itself
ProgramStep ==
    LoopEnter \/ DrawAnnounce \/ Insert \/ WinAnnounce \/ NoWin \/ TogglePlayer
        \/ AdvanceTurn

\* Every step of main is taken once it can be, and a prompt that can be
\* answered acceptably eventually is.
FairSpec ==
    /\ Spec
    /\ WF_vars(ProgramStep)
    /\ WF_vars(AcceptableAnswer)

----------------------------------------------------------------------------
(* is_win() as a function of arbitrary masks.                              *)

MaxOtherMask == 7

FullMask == (2 ^ NumCells) - 1

OtherMasks == (0..MaxOtherMask) \cup {winNums[k] : k \in 1..Len(winNums)} \cup {FullMask}

WinInit ==
    /\ playerCount \in Players
    /\ boardStates \in { [q \in Players |-> IF q = playerCount THEN m ELSE o] :
                           m \in 0..FullMask, o \in OtherMasks }
    /\ turnCount = 0
    /\ pc = "is_win"
    /\ inputIndex = Unbound
    /\ insertIndex = -1
    /\ winResult = FALSE
    /\ announced = <<>>
    /\ placedCount = 0
    /\ symbols = <<"X", "O">>
    /\ boardData = [k \in 1..NumCells |-> " "]

CallIsWin ==
    /\ pc = "is_win"
    /\ winResult' = is_win(boardStates, playerCount)
    /\ pc' = "returned"
    /\ UNCHANGED <<boardStates, playerCount, turnCount, inputIndex, insertIndex,
                   announced, placedCount,
                   screen>>

WinNext == CallIsWin

WinSpec == WinInit /\ [][WinNext]_vars

----------------------------------------------------------------------------
(* frontend_draw_board() as a function of the masks and the symbols.       *)

\* bin(n)[2:]
RECURSIVE Bin(_)
Bin(n) ==
    IF n < 2 THEN <<DigitChars[n + 1]>>
    ELSE Bin(n \div 2) \o <<DigitChars[(n % 2) + 1]>>

\* str.zfill(w), for a string without sign
RECURSIVE ZFill(_, _)
ZFill(str, w) == IF Len(str) >= w THEN str ELSE ZFill(<<"0">> \o str, w)

\* the index reversal left out
BoardIndex_plain(i) == i

\* 8 - i, for the string position i counted from 0
BoardIndex(i) == 8 - i

\* [8 - i for i, v in enumerate(str) if v == '1'], from position k on
RECURSIVE PlayerIndices(_, _)
PlayerIndices(str, k) ==
    IF k > Len(str) THEN <<>>
    ELSE (IF str[k] = "1" THEN <<BoardIndex(k - 1)>> ELSE <<>>)
             \o PlayerIndices(str, k + 1)

\* a Python list index as a position of a sequence
ListPos(i, n) == (IF i < 0 THEN i + n ELSE i) + 1

\* for i in playerIndices: boardData[i] = symbol
RECURSIVE Paint(_, _, _)
Paint(data, idxs, sym) ==
    IF idxs = <<>> THEN data
    ELSE Paint([data EXCEPT ![ListPos(Head(idxs), Len(data))] = sym], Tail(idxs), sym)

frontend_draw_board(bs, syms) ==
    LET blank == [k \in 1..NumCells |-> " "]
        player0BinStr == ZFill(Bin(bs[0]), NumCells)
        player1BinStr == ZFill(Bin(bs[1]), NumCells)
        first == Paint(blank, PlayerIndices(player0BinStr, 1), syms[1])
    IN  Paint(first, PlayerIndices(player1BinStr, 1), syms[2])

SymbolPairs == { <<"X", "O">>, <<"Q", "Q">>, <<" ", "ab">> }

DisjointMasks ==
    { mm \in (0..FullMask) \X (0..FullMask) : BitAnd(mm[1], mm[2]) = 0 }

DrawInit ==
    /\ \E mm \in DisjointMasks : boardStates = [q \in Players |-> mm[q + 1]]
    /\ symbols \in SymbolPairs
    /\ playerCount = 0
    /\ turnCount = 0
    /\ pc = "draw_board"
    /\ inputIndex = Unbound
    /\ insertIndex = -1
    /\ winResult = FALSE
    /\ announced = <<>>
    /\ placedCount = 0
    /\ boardData = [k \in 1..NumCells |-> " "]

CallDrawBoard ==
    /\ pc = "draw_board"
    /\ boardData' = frontend_draw_board(boardStates, symbols)
    /\ pc' = "drawn"
    /\ UNCHANGED <<boardStates, playerCount, turnCount, inputIndex, insertIndex,
                   winResult, announced, placedCount, symbols>>

DrawNext == CallDrawBoard

DrawSpec == DrawInit /\ [][DrawNext]_vars

----------------------------------------------------------------------------
(* Game_Ops used as a class: its operations called in any order.           *)

MaxOpsCell == 2

MaxOpsPlacements == 3

MaxOpsTurns == 2

OpsPcs ==
    {"ops", "insert_index", "update_player_count", "update_turn", "is_win",
     "is_in_board_state", "Game_Ops"}

OpsInit ==
    /\ boardStates = [q \in Players |-> 0]
    /\ playerCount = 0
    /\ turnCount = 0
    /\ pc = "ops"
    /\ inputIndex = Unbound
    /\ insertIndex = -1
    /\ winResult = FALSE
    /\ announced = <<>>
    /\ placedCount = 0
    /\ symbols = <<"X", "O">>
    /\ boardData = [k \in 1..NumCells |-> " "]

OpInsertIndex ==
    /\ pc \in OpsPcs
    /\ placedCount < MaxOpsPlacements
    /\ \E i \in 0..MaxOpsCell :
        /\ insertIndex' = i
        /\ boardStates' = insert_index(boardStates, playerCount, i)
    /\ placedCount' = placedCount + 1
    /\ pc' = "insert_index"
    /\ UNCHANGED <<playerCount, turnCount, inputIndex, winResult, announced, screen>>

OpIsInBoardState ==
    /\ pc \in OpsPcs
    /\ \E i \in 0..MaxOpsCell :
        /\ insertIndex' = i
        /\ winResult' = is_in_board_state(boardStates, i)
    /\ pc' = "is_in_board_state"
    /\ UNCHANGED <<boardStates, playerCount, turnCount, inputIndex, announced,
                   placedCount, screen>>

OpIsWin ==
    /\ pc \in OpsPcs
    /\ winResult' = is_win(boardStates, playerCount)
    /\ pc' = "is_win"
    /\ UNCHANGED <<boardStates, playerCount, turnCount, inputIndex, insertIndex,
                   announced, placedCount, screen>>

OpUpdatePlayerCount ==
    /\ pc \in OpsPcs
    /\ playerCount' = update_player_count(playerCount)
    /\ pc' = "update_player_count"
    /\ UNCHANGED <<boardStates, turnCount, inputIndex, insertIndex, winResult,
                   announced, placedCount, screen>>

OpUpdateTurn ==
    /\ pc \in OpsPcs
    /\ \E num \in 1..2 :
        /\ turnCount + num <= MaxOpsTurns
        /\ turnCount' = update_turn(turnCount, num)
    /\ pc' = "update_turn"
    /\ UNCHANGED <<boardStates, playerCount, inputIndex, insertIndex, winResult,
                   announced, placedCount, screen>>

\* Game_Ops() once more: __new__ hands back the instance that exists, and
\* Python then runs __init__ on it
OpConstruct ==
    /\ pc \in OpsPcs
    /\ boardStates' = [q \in Players |-> 0]
    /\ playerCount' = 0
    /\ turnCount' = 0
    /\ pc' = "Game_Ops"
    /\ UNCHANGED <<inputIndex, insertIndex, winResult, announced, placedCount,
                   screen>>

OpsNext ==
    \/ OpInsertIndex
    \/ OpIsInBoardState
    \/ OpIsWin
    \/ OpUpdatePlayerCount
    \/ OpUpdateTurn
    \/ OpConstruct

OpsSpec == OpsInit /\ [][OpsNext]_vars

----------------------------------------------------------------------------
(* The vocabulary of the properties: the board read cell by cell.          *)

Cells == 0..(NumCells - 1)

CellsOf(m) == {i \in Cells : (m \div (2 ^ i)) % 2 = 1}

\* rows, columns and diagonals of the row-major 3x3 layout
Lines ==
    {{3 * r, 3 * r + 1, 3 * r + 2} : r \in 0..2} \cup
    {{c, c + 3, c + 6} : c \in 0..2} \cup
    {{0, 4, 8}, {2, 4, 6}}

HasCompleteLine(m) == \E l \in Lines : l \subseteq CellsOf(m)

Marks(m) == Cardinality(CellsOf(m))

Range(q) == {q[k] : k \in 1..Len(q)}

Other(p) == 1 - p

DrawMsg == [kind |-> "draw", player |-> -1]

WonMsg(p) == [kind |-> "won", player |-> p]

\* C1: in every reachable state of a game, whatever the inputs were, no cell
\* belongs to both masks: boardStates[0] & boardStates[1] = 0.
MasksDisjoint ==
    /\ BitAnd(boardStates[0], boardStates[1]) = 0
    /\ CellsOf(boardStates[0]) \cap CellsOf(boardStates[1]) = {}

MasksDisjointWitness ==
    /\ pc = "ask"
    /\ inputIndex \in ValidInputs
    /\ Marks(boardStates[0]) = 4
    /\ Marks(boardStates[1]) = 4

\* C2: is_win() is true exactly when the current player's mask holds all three
\* cells of a row, a column or a diagonal; the other mask has no influence.
IsWinIffCompleteLine ==
    pc = "returned" =>
        /\ winResult = HasCompleteLine(boardStates[playerCount])
        /\ \A o \in OtherMasks :
               is_win([boardStates EXCEPT ![Other(playerCount)] = o], playerCount)
                   = winResult

IsWinWitness ==
    /\ pc = "returned"
    /\ playerCount = 1
    /\ boardStates[1] = 92
    /\ boardStates[0] = 7
    /\ winResult = TRUE

\* C3: right after insert_index(i) by player p in main, is_in_board_state(i)
\* is true, bit i is set in p's mask and not set in the other player's mask.
PlacementSetsOwnBit ==
    pc = "check" =>
        /\ is_in_board_state(boardStates, insertIndex)
        /\ insertIndex \in CellsOf(boardStates[playerCount])
        /\ insertIndex \notin CellsOf(boardStates[Other(playerCount)])

PlacementWitness ==
    /\ pc = "check"
    /\ insertIndex = 0
    /\ playerCount = 1
    /\ placedCount = 8

\* what the claims call an input to be rejected: not a number, a number
\* outside 0..8, or the number of a cell that is taken
IsNumberInRange(s) == PyIntOk(s) /\ PyInt(s) \in Cells

NamesTakenCell(s, bs) ==
    IsNumberInRange(s) /\ PyInt(s) \in CellsOf(bs[0]) \cup CellsOf(bs[1])

\* C4: an input that is non-numeric, outside 0..8 or names an occupied cell
\* leaves both masks, turnCount and playerCount as they were, places nothing
\* and has the same player prompted again.
RejectedMoveChangesNothing ==
    [][ (pc = "ask" /\ (~IsNumberInRange(inputIndex') \/ NamesTakenCell(inputIndex', boardStates)))
          => /\ UNCHANGED <<boardStates, turnCount, playerCount, placedCount,
                            insertIndex, announced>>
             /\ pc' = "ask" ]_vars

RejectedMoveWitness ==
    /\ pc = "ask"
    /\ inputIndex = <<"1", "0">>
    /\ playerCount = 1
    /\ turnCount = 3

\* C5: frontend_ask_input accepts an input if and only if it denotes an
\* integer in 0..8 whose cell is free in both masks.
AcceptsIffNumberOfFreeCell ==
    [][ pc = "ask" =>
          ( (pc' = "insert")
              <=> (IsNumberInRange(inputIndex') /\ ~NamesTakenCell(inputIndex', boardStates)) ) ]_vars

\* C6 as stated: whenever the game continues or has ended, turnCount is the
\* number of marks on the board.
TurnCountIsMarksAtTurnEnd ==
    pc \in {"while", "won", "draw"} =>
        turnCount = Marks(boardStates[0]) + Marks(boardStates[1])

\* C6: turnCount is raised by exactly 1 for every placement that does not
\* complete a line, so that at each loop test and at the draw it is the number
\* of marks; the placement that wins ends the game without raising it.
TurnCountTracksPlacements ==
    /\ placedCount = Marks(boardStates[0]) + Marks(boardStates[1])
    /\ pc \in {"while", "ask", "insert", "draw"} => turnCount = placedCount
    /\ pc \in {"check", "toggle", "turn", "won"} => turnCount = placedCount - 1

TurnCountWitness ==
    /\ pc = "won"
    /\ turnCount = 4
    /\ placedCount = 5

\* C7: a draw is announced exactly when nine placements were made and none
\* completed a line: then turnCount = 9, the board is full and neither mask
\* holds a line; no game with a completed line announces a draw.
DrawIffNineWithoutLine ==
    /\ (pc = "draw" \/ DrawMsg \in Range(announced)) =>
           /\ turnCount = 9
           /\ placedCount = 9
           /\ BitOr(boardStates[0], boardStates[1]) = 511
           /\ ~HasCompleteLine(boardStates[0])
           /\ ~HasCompleteLine(boardStates[1])
           /\ announced = <<DrawMsg>>
    /\ ( /\ placedCount = 9
         /\ ~HasCompleteLine(boardStates[0])
         /\ ~HasCompleteLine(boardStates[1]) )
           => /\ pc \in {"check", "toggle", "turn", "while", "draw"}
              /\ pc = "draw" <=> announced = <<DrawMsg>>
              /\ pc # "draw" => announced = <<>>

DrawWitness ==
    /\ pc = "draw"
    /\ winResult = FALSE
    /\ playerCount = 1

\* C8: Won and Draw are terminal and exclude each other: once an outcome is
\* announced nothing changes any more, and at most one outcome is announced.
OutcomeTerminalExclusive ==
    /\ [][announced # <<>> => UNCHANGED vars]_vars
    /\ [](/\ Len(announced) <= 1
          /\ (pc = "won") <=> (announced # <<>> /\ announced[1].kind = "won")
          /\ (pc = "draw") <=> (announced # <<>> /\ announced[1].kind = "draw"))

OutcomeWitness ==
    /\ pc = "won"
    /\ placedCount = 9
    /\ announced = <<WonMsg(0)>>

\* C9: the players alternate, player 0 first: the k-th placement (from 0)
\* goes into the mask of player k mod 2 and into no other, and mask0 holds as
\* many marks as mask1 or one more.
PlayersAlternate ==
    /\ [](/\ pc = "insert" => playerCount = placedCount % 2
          /\ Marks(boardStates[0]) - Marks(boardStates[1]) \in {0, 1})
    /\ [][ placedCount' # placedCount =>
             LET mover == placedCount % 2
             IN  /\ Marks(boardStates'[mover]) = Marks(boardStates[mover]) + 1
                 /\ boardStates'[Other(mover)] = boardStates[Other(mover)] ]_vars

AlternateWitness ==
    /\ pc = "check"
    /\ placedCount = 4
    /\ playerCount = 1
    /\ Marks(boardStates[1]) = 2

\* C10: when every prompt that can be answered acceptably eventually is, the
\* game reaches the win or the draw announcement, after at most 9 placements.
GameTerminates ==
    /\ <>(pc \in {"won", "draw"} /\ announced # <<>>)
    /\ [](placedCount <= 9)

TerminatesWitness ==
    /\ announced # <<>>
    /\ placedCount = 5
    /\ inputIndex \in ValidInputs

\* C11: the board is rendered faithfully: for disjoint 9-bit masks, position i
\* of the template gets symbols[0] where mask 0 has bit i, symbols[1] where
\* mask 1 has it, and a blank elsewhere.
RenderingFaithful ==
    pc = "drawn" =>
        /\ Len(boardData) = NumCells
        /\ \A i \in Cells :
               boardData[i + 1] =
                   IF i \in CellsOf(boardStates[0]) THEN symbols[1]
                   ELSE IF i \in CellsOf(boardStates[1]) THEN symbols[2]
                   ELSE " "

RenderingWitness ==
    /\ pc = "drawn"
    /\ boardStates[0] = 20
    /\ boardStates[1] = 40
    /\ boardData = <<" ", " ", "X", "O", "X", "O", " ", " ", " ">>

\* C12: the state starts with both masks 0, turnCount 0 and playerCount 0, and
\* always turnCount is in 0..9, playerCount in {0, 1} and each mask in 0..511.
StartsZeroStaysInRange ==
    /\ (boardStates = [q \in Players |-> 0] /\ turnCount = 0 /\ playerCount = 0)
    /\ [](/\ turnCount \in 0..9
          /\ playerCount \in {0, 1}
          /\ DOMAIN boardStates = {0, 1}
          /\ \A q \in DOMAIN boardStates : boardStates[q] \in 0..511)

InRangeWitness ==
    /\ turnCount = 9
    /\ playerCount = 1
    /\ boardStates[0] > 255
    /\ boardStates[1] > 127

\* C13: a win is detected at once and goes to the mover: the first placement
\* that completes a line of the placing player leads to Won, the check is made
\* before the player index is toggled, the announced winner made the last
\* placement, and no placement follows a completed line.
WinEarliestByMover ==
    /\ [](/\ pc \in {"toggle", "turn", "while", "ask", "insert"} =>
                 ~HasCompleteLine(boardStates[0]) /\ ~HasCompleteLine(boardStates[1])
          /\ pc \in {"check", "won"} =>
                 /\ playerCount = (placedCount - 1) % 2
                 /\ insertIndex \in CellsOf(boardStates[playerCount])
          /\ pc = "won" =>
                 /\ announced = <<WonMsg(playerCount)>>
                 /\ HasCompleteLine(boardStates[playerCount])
                 /\ ~HasCompleteLine(boardStates[playerCount] - 2 ^ insertIndex))
    /\ [][ (pc = "check" /\ HasCompleteLine(boardStates[playerCount])) =>
               (pc' = "won" /\ announced' = <<WonMsg(playerCount)>>
                    /\ playerCount' = playerCount) ]_vars
    /\ [][ (placedCount' # placedCount \/ boardStates' # boardStates) =>
               (~HasCompleteLine(boardStates[0]) /\ ~HasCompleteLine(boardStates[1])) ]_vars

WinByMoverWitness ==
    /\ pc = "won"
    /\ playerCount = 1
    /\ placedCount = 6
    /\ announced = <<WonMsg(1)>>

\* C14: checking the mover's mask is enough: at every prompt neither mask
\* holds a complete line, and in Won exactly one mask does, the announced
\* winner's.
MoverCheckSuffices ==
    /\ pc = "ask" =>
           ~HasCompleteLine(boardStates[0]) /\ ~HasCompleteLine(boardStates[1])
    /\ pc = "won" =>
           /\ Len(announced) = 1
           /\ announced[1].kind = "won"
           /\ HasCompleteLine(boardStates[announced[1].player])
           /\ ~HasCompleteLine(boardStates[Other(announced[1].player)])
           /\ Cardinality({q \in Players : HasCompleteLine(boardStates[q])}) = 1

MoverCheckWitness ==
    /\ pc = "won"
    /\ placedCount = 7
    /\ HasCompleteLine(boardStates[0])
    /\ Marks(boardStates[1]) = 3

\* C16: the game is never stuck at a prompt: whenever frontend_ask_input waits
\* for a move, turnCount < 9, no outcome is announced and some cell of 0..8 is
\* free in both masks, so some input is acceptable.
PromptNeverStuck ==
    pc = "ask" =>
        /\ turnCount < 9
        /\ announced = <<>>
        /\ \E i \in Cells : i \notin CellsOf(boardStates[0]) \cup CellsOf(boardStates[1])
        /\ \E str \in RawInputs :
               str \in ValidInputs /\ ~is_in_board_state(boardStates, PyInt(str))

PromptWitness ==
    /\ pc = "ask"
    /\ turnCount = 8
    /\ Marks(boardStates[0]) + Marks(boardStates[1]) = 8
    /\ inputIndex = <<"a">>

\* C15: each Game_Ops operation changes only what it names: insert_index(i)
\* at most bit i of the current player's mask; update_player_count only
\* playerCount; update_turn only turnCount; is_win and is_in_board_state
\* nothing of the game state.
OpsChangeOnlyTheirOwn ==
    [][ /\ pc' = "insert_index" =>
               /\ boardStates'[playerCount] \in
                      {boardStates[playerCount], boardStates[playerCount] + 2 ^ insertIndex'}
               /\ insertIndex' \in CellsOf(boardStates'[playerCount])
               /\ boardStates'[Other(playerCount)] = boardStates[Other(playerCount)]
               /\ UNCHANGED <<playerCount, turnCount>>
        /\ pc' = "update_player_count" => UNCHANGED <<boardStates, turnCount>>
        /\ pc' = "update_turn" => UNCHANGED <<boardStates, playerCount>>
        /\ pc' \in {"is_win", "is_in_board_state"} =>
               UNCHANGED <<boardStates, playerCount, turnCount>> ]_vars

OpsFrameWitness ==
    /\ pc = "insert_index"
    /\ playerCount = 1
    /\ insertIndex = 0
    /\ boardStates[0] = 1
    /\ boardStates[1] = 3
    /\ turnCount = 2

\* C17: Game_Ops is a singleton whose state is created once: constructing
\* Game_Ops() again leaves boardStates, playerCount and turnCount as they were.
ConstructAgainKeepsState ==
    [][ pc' = "Game_Ops" => UNCHANGED <<boardStates, playerCount, turnCount>> ]_vars

====
